---- MODULE Spec2Model ----
(***************************************************************************)
(* The WiMAX subscriber-station uplink scheduler (SSScheduler) as a state  *)
(* machine.  SSScheduler::Schedule is modelled statement by statement: the *)
(* entry (selection or assertion), one action per way an iteration of the  *)
(* while loop can go, and the return.  The scheduler is single-threaded    *)
(* and never suspends, so while a call is in progress (pc # "idle") no     *)
(* other operation is enabled.                                             *)
(*                                                                         *)
(* The collaborators whose code is not part of the scheduler (the MAC      *)
(* queue, the PHY conversions, the service-flow registry, the assertion    *)
(* macro) are modelled from their documented contracts.                    *)
(***************************************************************************)
EXTENDS Integers, Sequences, FiniteSets, TLC

\* ------------------------------------------------------------------ bounds

\* Total number of SDUs enqueued in one run.
MaxSdus == 2

\* Largest grant (availableSymbols) handed to Schedule.
MaxSymbols == 4

\* Largest value of Simulator::Now() (milliseconds) read by SelectConnection.
MaxTime == 2

\* ------------------------------------------------------- program constants

\* availableSymbols and nrSymbolsRequired are uint16_t.
Width16 == 65536

\* headerSize += 2: the fragmentation sub-header the scheduler accounts for.
FragSubhdrSize == 2

\* Serialized size of the generic MAC header the queue adds to a data SDU.
GenericHdrSize == 6

\* PHY frame duration, in milliseconds.
FrameDuration == 1

\* ------------------------------------------------------------- vocabulary

NoConn == "none"

GENERIC == "HEADER_TYPE_GENERIC"

BANDWIDTH == "HEADER_TYPE_BANDWIDTH"

HeaderTypes == {GENERIC, BANDWIDTH}

Modulations == {"BPSK_12", "QPSK_12"}

\* The station's connections: the four management connections and the
\* transport connections of its service flows.
Conns == {"IR", "BASIC", "PRIMARY", "BCAST", "UGS1", "RTPS1", "NRTPS1", "BE1"}

\* Cid::Type of a connection (WimaxConnection::GetType).
GetType(c) ==
  CASE c = "IR" -> "INITIAL_RANGING"
    [] c = "BASIC" -> "BASIC"
    [] c = "PRIMARY" -> "PRIMARY"
    [] c = "BCAST" -> "BROADCAST"
    [] OTHER -> "TRANSPORT"

\* The SDUs the MAC enqueues on a connection: management messages and data
\* SDUs go out under a generic MAC header; bandwidth requests (of payload 0:
\* a degenerate SDU) are made for service flows, on their transport
\* connections.
SduKinds(c) ==
  {[type |-> GENERIC, payload |-> 5]}
    \cup (IF GetType(c) = "TRANSPORT"
          THEN {[type |-> BANDWIDTH, payload |-> 5],
                [type |-> BANDWIDTH, payload |-> 0]}
          ELSE {})

SfTypes == {"SF_TYPE_UGS", "SF_TYPE_RTPS", "SF_TYPE_NRTPS", "SF_TYPE_BE"}

\* The service flows the station registers by default: one flow per scheduling
\* type, each with its connection and its interval (ms).
OneFlowPerClass ==
  [sfType \in SfTypes |->
     CASE sfType = "SF_TYPE_UGS" -> << [conn |-> "UGS1", interval |-> 2] >>
       [] sfType = "SF_TYPE_RTPS" -> << [conn |-> "RTPS1", interval |-> 1] >>
       [] sfType = "SF_TYPE_NRTPS" -> << [conn |-> "NRTPS1", interval |-> 0] >>
       [] sfType = "SF_TYPE_BE" -> << [conn |-> "BE1", interval |-> 0] >>]

\* -------------------------------------------------------------------- PHY

\* Bytes carried by one symbol under a modulation: a unit-rate modulation
\* (bytes_for(n) = n) and a denser one.
BytesPerSymbol(m) == IF m = "BPSK_12" THEN 1 ELSE 5

\* WimaxPhy::GetNrBytes(symbols, modulation).
GetNrBytes(symbols, m) == symbols * BytesPerSymbol(m)

\* A modulation of a PHY that keeps to the letter of its contract only: its
\* GetNrSymbols rounds up and then adds one guard symbol per packet, so that
\* GetNrBytes(GetNrSymbols(b)) >= b holds and GetNrBytes is monotone.
PaddedModulation == "QPSK_12_PADDED"

\* Guard symbols GetNrSymbols adds under a modulation.
GuardSymbols(m) == IF m = PaddedModulation THEN 1 ELSE 0

\* WimaxPhy::GetNrSymbols(bytes, modulation): rounds up.
GetNrSymbols(bytes, m) ==
  (bytes + BytesPerSymbol(m) - 1) \div BytesPerSymbol(m) + GuardSymbols(m)

\* uint16_t subtraction: availableSymbols -= nrSymbolsRequired.
Sub16(a, b) == (a - b + Width16) % Width16

\* ------------------------------------------------------------ MAC queue

\* A queue element: the SDU's identity, header type, payload size, and the
\* queue-owned fragmentation state (bytes already sent, chain in progress).
\* A queue is a sequence of elements in enqueue order.

\* Header bytes the queue adds in front of an SDU of a header type: a
\* bandwidth-request SDU already carries its header in its payload.
HdrSize(t) == IF t = GENERIC THEN GenericHdrSize ELSE 0

\* WimaxConnection::HasPackets().
HasPackets(q) == Len(q) > 0

\* WimaxConnection::HasPackets(packetType).
HasPacketsOf(q, t) == \E i \in 1..Len(q) : q[i].type = t

\* Index of the head-of-line element of a header type (WimaxMacQueue::Front).
FrontIdx(q, t) == CHOOSE i \in 1..Len(q) :
                    /\ q[i].type = t
                    /\ \A j \in 1..(i-1) : q[j].type # t

Front(q, t) == q[FrontIdx(q, t)]

\* WimaxMacQueue::CheckForFragmentation(packetType).
CheckForFragmentation(q, t) == Front(q, t).frag

\* WimaxMacQueue::GetFirstPacketHdrSize(packetType): the MAC header plus the
\* sub-header of a chain already in progress.
GetFirstPacketHdrSize(q, t) ==
  HdrSize(t) + (IF Front(q, t).frag THEN FragSubhdrSize ELSE 0)

\* WimaxMacQueue::GetFirstPacketRequiredByte(packetType): the bytes needed to
\* send the rest of the head SDU whole.
GetFirstPacketRequiredByte(q, t) ==
  GetFirstPacketHdrSize(q, t) + (Front(q, t).payload - Front(q, t).offset)

RemoveAt(q, i) == SubSeq(q, 1, i-1) \o SubSeq(q, i+1, Len(q))

\* WimaxMacQueue::Dequeue(packetType): the packet handed out (the whole SDU,
\* or the last fragment of a chain).
DequeuedPacket(q, t) ==
  LET e == Front(q, t) IN
  [id |-> e.id, off |-> e.offset, len |-> e.payload - e.offset,
   size |-> GetFirstPacketRequiredByte(q, t), whole |-> TRUE]

\* ... and the queue it leaves.
DequeuedQueue(q, t) == RemoveAt(q, FrontIdx(q, t))

\* Payload bytes of a fragment cut to fit cap bytes: the cap less the MAC
\* header and the fragmentation sub-header, never more than what is left.
FragmentPayload(q, t, cap) ==
  LET room == cap - HdrSize(t) - FragSubhdrSize
      left == Front(q, t).payload - Front(q, t).offset
  IN IF room < left THEN room ELSE left

\* WimaxMacQueue::Dequeue(packetType, availableByte): the fragment.
FragmentPacket(q, t, cap) ==
  LET e == Front(q, t) IN
  [id |-> e.id, off |-> e.offset, len |-> FragmentPayload(q, t, cap),
   size |-> HdrSize(t) + FragSubhdrSize + FragmentPayload(q, t, cap),
   whole |-> FALSE]

\* ... and the queue it leaves: the head stays, its chain in progress.
FragmentQueue(q, t, cap) ==
  LET i == FrontIdx(q, t) IN
  [q EXCEPT ![i].offset = @ + FragmentPayload(q, t, cap), ![i].frag = TRUE]

\* -------------------------------------------------------------- state

\* ------------------------------------------------- fat-tree simulation

\* const uint32_t NUM_SERVERS = 320.
NUM_SERVERS == 320

\* uint16_t basePort = isTcp ? 8000 : 9000.
TcpBasePort == 8000
UdpBasePort == 9000

\* const double SIMULATION_TIME = 5.0 (seconds), in ticks of 0.1 s.
SIMULATION_TIME == 50

\* Seconds(0.1) and Seconds(0.2), the delays of the chains' first events, in
\* ticks.
FirstBackgroundDelay == 1
FirstIncastDelay == 2

\* Events the simulator is followed through.
MaxEvents == 7

\* Calls of GetUniquePort followed for one receiver.
MaxPortCalls == 65536

\* Calls followed for each of the other receivers.
MaxOtherCalls == 1

\* The receiver most flows go to, and the receivers followed.
BusyReceiver == NUM_SERVERS - 1
Receivers == {0, BusyReceiver}

\* m_receiverPortMap.find(receiverIdx) == m_receiverPortMap.end().
NoPort == -1

NoPortCall == [receiverIdx |-> 0, isTcp |-> FALSE, prev |-> NoPort,
               port |-> NoPort]

\* The two traffic chains and their handlers.
Chains == {"background", "incast"}

ScheduleNextHandler(ch) ==
  IF ch = "background" THEN "ScheduleNextBackgroundFlow"
  ELSE "ScheduleNextIncast"

StartHandler(ch) ==
  IF ch = "background" THEN "StartBackgroundFlow" ELSE "StartIncast"

\* No inter-arrival time sampled yet.
NoSample == [at |-> 0, interArrival |-> -1]

VARIABLES
  queue,             \* per connection: its MAC queue
  nextId,            \* identity given to the next SDU enqueued
  sdu,               \* per SDU identity: where and how it was enqueued
  sent,              \* per SDU identity: payload bytes handed out in bursts
  log,               \* per connection and header type: SDUs in delivery order
  m_pollMe,          \* SSScheduler::m_pollMe
  pollMeArg,         \* the argument of the latest SetPollMe call, if any
  pc,                \* position of the Schedule call in progress
  call,              \* the arguments of the call in progress
  connection,        \* Schedule's connection reference (in/out)
  availableSymbols,  \* Schedule's running symbol budget (uint16_t)
  burst,             \* the burst being built
  lastStep,          \* what the previous loop iteration did
  q0,                \* the queues when the call in progress started
  flows,             \* the service flow manager's registry, per scheduling type
  m_receiverPortMap, \* FatTreeTopology::m_receiverPortMap
  portCalls,         \* per receiver: GetUniquePort calls made so far
  portCall,          \* the latest GetUniquePort call and what it returned
  kept,              \* per receiver: ports returned by some earlier calls
  clock,             \* Simulator::Now(), in ticks
  events,            \* the simulator's pending events
  nextUid,           \* the number the simulator gives the next event
  running,           \* Simulator::Run has not met the stop event yet
  sampled,           \* per chain: its latest inter-arrival sample and when
  returnedEarly      \* per chain: a Start event returned on a bad address

vars == << queue, nextId, sdu, sent, log, m_pollMe, pollMeArg, pc, call,
           connection, availableSymbols, burst, lastStep, q0, flows,
           m_receiverPortMap, portCalls, portCall, kept,
           clock, events, nextUid, running, sampled, returnedEarly >>

\* The port management of the fat-tree simulation.
portVars == << m_receiverPortMap, portCalls, portCall, kept >>

\* The event chains of the fat-tree simulation.
chainVars == << clock, events, nextUid, running, sampled, returnedEarly >>

\* The state of the fat-tree simulation.
fatTreeVars == << portVars, chainVars >>

\* The state of the subscriber station.
stationVars == << queue, nextId, sdu, sent, log, m_pollMe, pollMeArg, pc, call,
                  connection, availableSymbols, burst, lastStep, q0, flows >>

\* ServiceFlowManager::GetServiceFlows(type): the flows of one scheduling
\* type in registry order.
GetServiceFlows(sfType) == flows[sfType]

\* The poll-me flag and its history.
pollVars == << m_pollMe, pollMeArg >>

schedVars == << pc, call, connection, availableSymbols, burst, lastStep, q0 >>

NoCall == [symbols |-> 0, modulation |-> "BPSK_12", packetType |-> GENERIC,
           supplied |-> NoConn, now |-> 0]

NoSdu == [conn |-> NoConn, type |-> GENERIC, payload |-> 0]

\* The state after construction: SSScheduler::SSScheduler sets m_pollMe to
\* false; the station's queues are empty.
InitStation ==
  /\ queue = [c \in Conns |-> << >>]
  /\ nextId = 1
  /\ sdu = [i \in 1..MaxSdus |-> NoSdu]
  /\ sent = [i \in 1..MaxSdus |-> 0]
  /\ log = [c \in Conns |-> [t \in HeaderTypes |-> << >>]]
  /\ m_pollMe = FALSE
  /\ pollMeArg = FALSE
  /\ pc = "idle"
  /\ call = NoCall
  /\ connection = NoConn
  /\ availableSymbols = 0
  /\ burst = << >>
  /\ lastStep = "none"
  /\ q0 = [c \in Conns |-> << >>]

\* The fat-tree simulation when main calls Simulator::Run: no receiver has a
\* port yet; GenerateTraffic has scheduled the first event of each chain and
\* main the stop event.
InitFatTree ==
  /\ m_receiverPortMap = [r \in Receivers |-> NoPort]
  /\ portCalls = [r \in Receivers |-> 0]
  /\ portCall = NoPortCall
  /\ kept = [r \in Receivers |-> {}]
  /\ clock = 0
  /\ events =
       {[time |-> FirstBackgroundDelay, uid |-> 0,
         handler |-> ScheduleNextHandler("background")],
        [time |-> FirstIncastDelay, uid |-> 1,
         handler |-> ScheduleNextHandler("incast")],
        [time |-> SIMULATION_TIME, uid |-> 2, handler |-> "Stop"]}
  /\ nextUid = 3
  /\ running = TRUE
  /\ sampled = [ch \in Chains |-> NoSample]
  /\ returnedEarly = [ch \in Chains |-> FALSE]

Init == InitStation /\ flows = OneFlowPerClass /\ InitFatTree

\* ------------------------------------------------------ SelectConnection

\* Mutant of DeadlineReached: the comparison is not strict.
DeadlineReached_AtLeast(currentTime, interval) ==
  currentTime + FrameDuration >= interval

\* currentTime + GetFrameDuration() > MilliSeconds(interval).
DeadlineReached(currentTime, interval) == currentTime + FrameDuration > interval

Min(S) == CHOOSE x \in S : \A y \in S : x <= y

\* Mutant of UgsEligible: the deadline is not tested.
UgsEligible_NoDeadline(q, f, currentTime) == HasPackets(q[f.conn])

\* UGS: (*iter)->HasPackets() && deadline.
UgsEligible(q, f, currentTime) ==
  HasPackets(q[f.conn]) /\ DeadlineReached(currentTime, f.interval)

\* rtPS: (*iter)->HasPackets(HEADER_TYPE_GENERIC) && deadline.
RtpsEligible(q, f, currentTime) ==
  HasPacketsOf(q[f.conn], GENERIC) /\ DeadlineReached(currentTime, f.interval)

\* Mutant of DataEligible: the test is on packets of any header type.
DataEligible_AnyType(q, f, currentTime) == HasPackets(q[f.conn])

\* nrtPS and BE: (*iter)->HasPackets(HEADER_TYPE_GENERIC).
DataEligible(q, f, currentTime) == HasPacketsOf(q[f.conn], GENERIC)

\* Whether a flow of a scheduling type passes its loop's test.
FlowEligible(sfType, q, f, currentTime) ==
  CASE sfType = "SF_TYPE_UGS" -> UgsEligible(q, f, currentTime)
    [] sfType = "SF_TYPE_RTPS" -> RtpsEligible(q, f, currentTime)
    [] OTHER -> DataEligible(q, f, currentTime)

\* Indices of the eligible flows of a scheduling type.
EligibleFlows(sfType, q, currentTime) ==
  {i \in 1..Len(GetServiceFlows(sfType)) :
     FlowEligible(sfType, q, GetServiceFlows(sfType)[i], currentTime)}

Max(S) == CHOOSE x \in S : \A y \in S : x >= y

\* Mutant of FirstFlow: the loop does not return at the first flow that
\* passes the test, so the last one that passes wins.
FirstFlow_Last(sfType, q, currentTime) ==
  IF EligibleFlows(sfType, q, currentTime) = {}
  THEN NoConn
  ELSE GetServiceFlows(sfType)[Max(EligibleFlows(sfType, q, currentTime))].conn

\* The for loop over a scheduling type's flows: the connection of the first
\* flow that passes the test, or none.
FirstFlow(sfType, q, currentTime) ==
  IF EligibleFlows(sfType, q, currentTime) = {}
  THEN NoConn
  ELSE GetServiceFlows(sfType)[Min(EligibleFlows(sfType, q, currentTime))].conn

\* Mutant of SelectConnection: the broadcast connection is the fallback
\* when nothing is eligible.
SelectConnection_BroadcastFallback(q, currentTime) ==
  IF HasPackets(q["IR"]) THEN "IR"
  ELSE IF HasPackets(q["BASIC"]) THEN "BASIC"
  ELSE IF HasPackets(q["PRIMARY"]) THEN "PRIMARY"
  ELSE IF FirstFlow("SF_TYPE_UGS", q, currentTime) # NoConn
       THEN FirstFlow("SF_TYPE_UGS", q, currentTime)
  ELSE IF FirstFlow("SF_TYPE_RTPS", q, currentTime) # NoConn
       THEN FirstFlow("SF_TYPE_RTPS", q, currentTime)
  ELSE IF FirstFlow("SF_TYPE_NRTPS", q, currentTime) # NoConn
       THEN FirstFlow("SF_TYPE_NRTPS", q, currentTime)
  ELSE IF FirstFlow("SF_TYPE_BE", q, currentTime) # NoConn
       THEN FirstFlow("SF_TYPE_BE", q, currentTime)
  ELSE "BCAST"

\* Mutant of SelectConnection: the broadcast connection is tested before
\* the service flows.
SelectConnection_BroadcastEarly(q, currentTime) ==
  IF HasPackets(q["IR"]) THEN "IR"
  ELSE IF HasPackets(q["BASIC"]) THEN "BASIC"
  ELSE IF HasPackets(q["PRIMARY"]) THEN "PRIMARY"
  ELSE IF HasPackets(q["BCAST"]) THEN "BCAST"
  ELSE IF FirstFlow("SF_TYPE_UGS", q, currentTime) # NoConn
       THEN FirstFlow("SF_TYPE_UGS", q, currentTime)
  ELSE IF FirstFlow("SF_TYPE_RTPS", q, currentTime) # NoConn
       THEN FirstFlow("SF_TYPE_RTPS", q, currentTime)
  ELSE IF FirstFlow("SF_TYPE_NRTPS", q, currentTime) # NoConn
       THEN FirstFlow("SF_TYPE_NRTPS", q, currentTime)
  ELSE FirstFlow("SF_TYPE_BE", q, currentTime)

\* SSScheduler::SelectConnection().
SelectConnection(q, currentTime) ==
  IF HasPackets(q["IR"]) THEN "IR"
  ELSE IF HasPackets(q["BASIC"]) THEN "BASIC"
  ELSE IF HasPackets(q["PRIMARY"]) THEN "PRIMARY"
  ELSE IF FirstFlow("SF_TYPE_UGS", q, currentTime) # NoConn
       THEN FirstFlow("SF_TYPE_UGS", q, currentTime)
  ELSE IF FirstFlow("SF_TYPE_RTPS", q, currentTime) # NoConn
       THEN FirstFlow("SF_TYPE_RTPS", q, currentTime)
  ELSE IF FirstFlow("SF_TYPE_NRTPS", q, currentTime) # NoConn
       THEN FirstFlow("SF_TYPE_NRTPS", q, currentTime)
  ELSE IF FirstFlow("SF_TYPE_BE", q, currentTime) # NoConn
       THEN FirstFlow("SF_TYPE_BE", q, currentTime)
  ELSE IF HasPackets(q["BCAST"]) THEN "BCAST"
  ELSE NoConn

\* ------------------------------------------------- the MAC's other handlers

\* An intervening enqueue from another MAC handler: an SDU of a header type
\* and payload size is appended to a connection's queue.
Enqueue(c, t, p) ==
  /\ pc = "idle"
  /\ nextId <= MaxSdus
  /\ queue' = [queue EXCEPT ![c] =
        Append(@, [id |-> nextId, type |-> t, payload |-> p,
                   offset |-> 0, frag |-> FALSE])]
  /\ sdu' = [sdu EXCEPT ![nextId] = [conn |-> c, type |-> t, payload |-> p]]
  /\ nextId' = nextId + 1
  /\ UNCHANGED << fatTreeVars, flows, sent, log, pollVars, schedVars >>

\* Mutant of SetPollMe: the flag can be raised but not lowered.
SetPollMe_OnlyRaises(pollMe) ==
  /\ pc = "idle"
  /\ m_pollMe' = (m_pollMe \/ pollMe)
  /\ pollMeArg' = pollMe
  /\ UNCHANGED << fatTreeVars, flows, queue, nextId, sdu, sent, log, schedVars >>

\* SSScheduler::SetPollMe(pollMe).
SetPollMe(pollMe) ==
  /\ pc = "idle"
  /\ m_pollMe' = pollMe
  /\ pollMeArg' = pollMe
  /\ UNCHANGED << fatTreeVars, flows, queue, nextId, sdu, sent, log, schedVars >>

\* SSScheduler::GetPollMe().
GetPollMe == m_pollMe

\* ------------------------------------------------------------- Schedule

\* Mutant of AssertionHolds: the assertion is never checked.
AssertionHolds_Unchecked(q, supplied) == TRUE

\* Mutant of AssertionHolds: the assertion asks for a data packet.
AssertionHolds_DataOnly(q, supplied) == HasPacketsOf(q[supplied], GENERIC)

\* NS_ASSERT_MSG(connection->HasPackets(), ...) on a supplied connection.
AssertionHolds(q, supplied) == HasPackets(q[supplied])

\* Mutant of EntryConnection: the scheduler remembers the connections it has
\* served and does not select one of them again.
EntryConnection_SkipsServed(q, supplied, currentTime) ==
  IF supplied # NoConn THEN supplied
  ELSE IF /\ SelectConnection(q, currentTime) # NoConn
          /\ \E t \in HeaderTypes :
               log[SelectConnection(q, currentTime)][t] # << >>
       THEN NoConn
       ELSE SelectConnection(q, currentTime)

\* Mutant of EntryConnection: the test of the connection argument is
\* inverted.
EntryConnection_Inverted(q, supplied, currentTime) ==
  IF supplied # NoConn THEN SelectConnection(q, currentTime) ELSE supplied

\* Mutant of EntryConnection: the ladder is run even when the caller
\* supplied a connection.
EntryConnection_AlwaysSelect(q, supplied, currentTime) ==
  IF SelectConnection(q, currentTime) # NoConn
  THEN SelectConnection(q, currentTime) ELSE supplied

\* if (!connection) connection = SelectConnection(); else the assertion.
\* The connection the loop runs on.
EntryConnection(q, supplied, currentTime) ==
  IF supplied = NoConn THEN SelectConnection(q, currentTime) ELSE supplied

\* Where the call goes after its entry: into the loop, or the abort of a
\* failed assertion.
EntryPc(q, supplied) ==
  IF supplied # NoConn /\ ~AssertionHolds(q, supplied) THEN "abort" ELSE "loop"

\* The arguments a call has read: a failed assertion stops the call before
\* any argument but the connection is used.
EntryCall(q, symbols, m, t, supplied, currentTime) ==
  IF EntryPc(q, supplied) = "abort"
  THEN [NoCall EXCEPT !.supplied = supplied]
  ELSE [symbols |-> symbols, modulation |-> m, packetType |-> t,
        supplied |-> supplied, now |-> currentTime]

\* Entry of Schedule(availableSymbols, modulationType, packetType, connection):
\* an empty burst is created and the connection is selected or checked.
\* Simulator::Now() is read only by SelectConnection.
ScheduleCall(symbols, m, t, supplied, currentTime) ==
  /\ pc = "idle"
  /\ call' = EntryCall(queue, symbols, m, t, supplied, currentTime)
  /\ q0' = queue
  /\ burst' = << >>
  /\ availableSymbols' = call'.symbols
  /\ connection' = EntryConnection(queue, supplied, currentTime)
  /\ pc' = EntryPc(queue, supplied)
  /\ lastStep' = "none"
  /\ UNCHANGED << fatTreeVars, flows, queue, nextId, sdu, sent, log, pollVars >>

\* while (connection && connection->HasPackets(packetType)).
LoopCondition(q, c, t) == c # NoConn /\ HasPacketsOf(q[c], t)

\* availableByte = GetNrBytes(availableSymbols, modulationType).
availableByte == GetNrBytes(availableSymbols, call.modulation)

\* requiredByte = GetFirstPacketRequiredByte(packetType).
requiredByte == GetFirstPacketRequiredByte(queue[connection], call.packetType)

\* Mutant of WholeFits: the comparison is strict.
WholeFits_Strict(a, r) == a > r

\* Mutant of WholeFits: the comparison is off by one byte.
WholeFits_OffByOne(a, r) == a + 1 >= r

\* Mutant of WholeFits: the operands of the comparison are swapped.
WholeFits_Swapped(a, r) == r >= a

\* if (availableByte >= requiredByte).
WholeFits(a, r) == a >= r

\* Mutant of headerSize: the sub-header is added even when a chain is in
\* progress.
headerSize_AlwaysAdds ==
  GetFirstPacketHdrSize(queue[connection], call.packetType) + FragSubhdrSize

\* headerSize: the head's header size, plus 2 when no chain is in progress.
headerSize ==
  GetFirstPacketHdrSize(queue[connection], call.packetType)
    + (IF ~CheckForFragmentation(queue[connection], call.packetType)
       THEN FragSubhdrSize ELSE 0)

\* Mutant of FragmentationPossible: room for two payload bytes is asked for.
FragmentationPossible_TwoBytes(a, h) == a > h + 1

\* Mutant of FragmentationPossible: the comparison is not strict.
FragmentationPossible_AtLeast(a, h) == a >= h

\* if (availableByte > headerSize).
FragmentationPossible(a, h) == a > h

\* Mutant of MayFragment: the connection type is not tested.
MayFragment_AnyType(c) == TRUE

\* if (connection->GetType() == Cid::TRANSPORT).
MayFragment(c) == GetType(c) = "TRANSPORT"

\* Mutant of nrSymbolsRequired: the cost is taken from the payload, without
\* the headers.
nrSymbolsRequired_PayloadOnly(packet) ==
  GetNrSymbols(packet.len, call.modulation) % Width16

\* nrSymbolsRequired = GetNrSymbols(packet->GetSize(), modulationType), a
\* uint16_t.
nrSymbolsRequired(packet) == GetNrSymbols(packet.size, call.modulation) % Width16

\* Mutant of AddPacket: the packet is put in front of the burst.
AddPacket_Prepend(b, packet) == << packet >> \o b

\* Mutant of AddPacket: a fragment is dequeued but not added to the burst.
AddPacket_DropFragment(b, packet) == IF packet.whole THEN Append(b, packet) ELSE b

\* burst->AddPacket(packet).
AddPacket(b, packet) == Append(b, packet)

\* The delivery log of a connection and header type after a packet of an
\* SDU went out: consecutive pieces of one SDU are one entry.
Logged(l, id) == IF Len(l) > 0 /\ l[Len(l)] = id THEN l ELSE Append(l, id)

RECURSIVE PayloadIn(_, _)
\* Payload bytes of an SDU carried by the packets of a burst.
PayloadIn(b, id) ==
  IF b = << >> THEN 0
  ELSE (IF b[1].id = id THEN b[1].len ELSE 0) + PayloadIn(Tail(b), id)

\* The bookkeeping of one dequeued packet: it is added to the burst and its
\* symbols are taken off the budget; what the burst gained is recorded as
\* handed out.
Deliver(packet) ==
  /\ burst' = AddPacket(burst, packet)
  /\ availableSymbols' = Sub16(availableSymbols, nrSymbolsRequired(packet))
  /\ sent' = [i \in DOMAIN sent |->
               sent[i] + PayloadIn(burst', i) - PayloadIn(burst, i)]
  /\ log' = [log EXCEPT ![connection][call.packetType] =
               IF Len(burst') > Len(burst) THEN Logged(@, packet.id) ELSE @]

\* One iteration that sends the head whole (lines 98-110).
SendWhole ==
  /\ pc = "loop"
  /\ LoopCondition(queue, connection, call.packetType)
  /\ WholeFits(availableByte, requiredByte)
  /\ Deliver(DequeuedPacket(queue[connection], call.packetType))
  /\ queue' = [queue EXCEPT ![connection] = DequeuedQueue(@, call.packetType)]
  /\ lastStep' = "whole"
  /\ UNCHANGED << fatTreeVars, flows, nextId, sdu, pollVars, pc, call, connection, q0 >>

\* One iteration that sends a fragment of the head (lines 113-136).
SendFragment ==
  /\ pc = "loop"
  /\ LoopCondition(queue, connection, call.packetType)
  /\ ~WholeFits(availableByte, requiredByte)
  /\ MayFragment(connection)
  /\ FragmentationPossible(availableByte, headerSize)
  /\ Deliver(FragmentPacket(queue[connection], call.packetType, availableByte))
  /\ queue' = [queue EXCEPT ![connection] =
                 FragmentQueue(@, call.packetType, availableByte)]
  /\ lastStep' = "fragment"
  /\ UNCHANGED << fatTreeVars, flows, nextId, sdu, pollVars, pc, call, connection, q0 >>

\* Mutant of BreakNoFragment: instead of breaking, the call falls back on
\* the connection SelectConnection would return without the stuck one.
BreakNoFragment_Fallback ==
  /\ pc = "loop"
  /\ LoopCondition(queue, connection, call.packetType)
  /\ ~WholeFits(availableByte, requiredByte)
  /\ MayFragment(connection)
  /\ ~FragmentationPossible(availableByte, headerSize)
  /\ connection' =
       SelectConnection([queue EXCEPT ![connection] = << >>], call.now)
  /\ pc' = "loop"
  /\ lastStep' = "break_no_fragment"
  /\ UNCHANGED << fatTreeVars, flows, queue, nextId, sdu, sent, log, pollVars, call,
                  availableSymbols, burst, q0 >>

\* The break of a transport connection that has no room for a fragment
\* (lines 137-141).
BreakNoFragment ==
  /\ pc = "loop"
  /\ LoopCondition(queue, connection, call.packetType)
  /\ ~WholeFits(availableByte, requiredByte)
  /\ MayFragment(connection)
  /\ ~FragmentationPossible(availableByte, headerSize)
  /\ pc' = "done"
  /\ lastStep' = "break_no_fragment"
  /\ UNCHANGED << fatTreeVars, flows, queue, nextId, sdu, sent, log, pollVars, call, connection,
                  availableSymbols, burst, q0 >>

\* Mutant of BreakNotTransport: the head that does not fit is dropped.
BreakNotTransport_DropsHead ==
  /\ pc = "loop"
  /\ LoopCondition(queue, connection, call.packetType)
  /\ ~WholeFits(availableByte, requiredByte)
  /\ ~MayFragment(connection)
  /\ queue' = [queue EXCEPT ![connection] = DequeuedQueue(@, call.packetType)]
  /\ pc' = "done"
  /\ lastStep' = "break_not_transport"
  /\ UNCHANGED << fatTreeVars, flows, nextId, sdu, sent, log, pollVars, call, connection,
                  availableSymbols, burst, q0 >>

\* Mutant of BreakNotTransport: the break is missing and the loop goes on.
BreakNotTransport_NoBreak ==
  /\ pc = "loop"
  /\ LoopCondition(queue, connection, call.packetType)
  /\ ~WholeFits(availableByte, requiredByte)
  /\ ~MayFragment(connection)
  /\ pc' = "loop"
  /\ lastStep' = "break_not_transport"
  /\ UNCHANGED << fatTreeVars, flows, queue, nextId, sdu, sent, log, pollVars, call, connection,
                  availableSymbols, burst, q0 >>

\* The break of a connection that is not a transport connection
\* (lines 143-149).
BreakNotTransport ==
  /\ pc = "loop"
  /\ LoopCondition(queue, connection, call.packetType)
  /\ ~WholeFits(availableByte, requiredByte)
  /\ ~MayFragment(connection)
  /\ pc' = "done"
  /\ lastStep' = "break_not_transport"
  /\ UNCHANGED << fatTreeVars, flows, queue, nextId, sdu, sent, log, pollVars, call, connection,
                  availableSymbols, burst, q0 >>

\* The loop condition fails: the loop ends (line 88).
LoopExit ==
  /\ pc = "loop"
  /\ ~LoopCondition(queue, connection, call.packetType)
  /\ pc' = "done"
  /\ lastStep' = "exit"
  /\ UNCHANGED << fatTreeVars, flows, queue, nextId, sdu, sent, log, pollVars, call, connection,
                  availableSymbols, burst, q0 >>

\* return burst (line 152): the call is over and the MAC goes on.
Return ==
  /\ pc = "done"
  /\ pc' = "idle"
  /\ call' = NoCall
  /\ connection' = NoConn
  /\ availableSymbols' = 0
  /\ burst' = << >>
  /\ lastStep' = "none"
  /\ q0' = [c \in Conns |-> << >>]
  /\ UNCHANGED << fatTreeVars, flows, queue, nextId, sdu, sent, log, pollVars >>

\* The instants at which a call reads the clock: only SelectConnection does.
Instants(supplied) == IF supplied = NoConn THEN 0..MaxTime ELSE {0}

Next ==
  \/ \E c \in Conns : \E k \in SduKinds(c) : Enqueue(c, k.type, k.payload)
  \/ \E symbols \in 0..MaxSymbols, m \in Modulations, t \in HeaderTypes,
        supplied \in Conns \cup {NoConn} :
       \E currentTime \in Instants(supplied) :
         ScheduleCall(symbols, m, t, supplied, currentTime)
  \/ SendWhole
  \/ SendFragment
  \/ BreakNoFragment
  \/ BreakNotTransport
  \/ LoopExit
  \/ Return

Spec == Init /\ [][Next]_vars

\* ------------------------------------------------ further specifications

\* One iteration of the while loop of Schedule, whichever way it goes.
LoopStep ==
  \/ SendWhole
  \/ SendFragment
  \/ BreakNoFragment
  \/ BreakNotTransport
  \/ LoopExit

\* The station on a PHY that keeps to the letter of its contract only: every
\* grant is made under the padded modulation.
NextPaddedPhy ==
  \/ \E c \in Conns : \E k \in SduKinds(c) : Enqueue(c, k.type, k.payload)
  \/ \E symbols \in 0..MaxSymbols, t \in HeaderTypes,
        supplied \in Conns \cup {NoConn} :
       \E currentTime \in Instants(supplied) :
         ScheduleCall(symbols, PaddedModulation, t, supplied, currentTime)
  \/ LoopStep
  \/ Return

SpecPaddedPhy == Init /\ [][NextPaddedPhy]_vars

\* The SDUs of a MAC that puts every kind of SDU on every connection, a
\* degenerate bandwidth request (payload 0) included.
AnySduKinds ==
  {[type |-> GENERIC, payload |-> 5],
   [type |-> BANDWIDTH, payload |-> 5],
   [type |-> BANDWIDTH, payload |-> 0]}

\* The station with such a MAC, its grants made under the unit-rate
\* modulation.
NextAnySdu ==
  \/ \E c \in Conns : \E k \in AnySduKinds : Enqueue(c, k.type, k.payload)
  \/ \E symbols \in 0..MaxSymbols, t \in HeaderTypes,
        supplied \in Conns \cup {NoConn} :
       \E currentTime \in Instants(supplied) :
         ScheduleCall(symbols, "BPSK_12", t, supplied, currentTime)
  \/ LoopStep
  \/ Return

SpecAnySdu == Init /\ [][NextAnySdu]_vars

\* The same station with the scheduling the code has: Schedule runs
\* synchronously and never suspends, so a loop iteration that can be taken
\* is taken.
SpecAnySduFair == SpecAnySdu /\ WF_vars(LoopStep)

\* The station with the poll-me flag in use: the MAC sets the flag between
\* its other operations; grants are made under the denser modulation.
NextPollMe ==
  \/ \E pollMe \in BOOLEAN : SetPollMe(pollMe)
  \/ \E c \in Conns : \E k \in SduKinds(c) : Enqueue(c, k.type, k.payload)
  \/ \E symbols \in 0..MaxSymbols, t \in HeaderTypes,
        supplied \in Conns \cup {NoConn} :
       \E currentTime \in Instants(supplied) :
         ScheduleCall(symbols, "QPSK_12", t, supplied, currentTime)
  \/ LoopStep
  \/ Return

SpecPollMe == Init /\ [][NextPollMe]_vars

\* A station with two service flows of one scheduling type: the flows are
\* carried by the transport connections "NRTPS1" and "BE1", registered in that
\* order under one type; for the types with a deadline one of the two has an
\* interval that is not yet due at the first instants.
TwoFlows(i1, i2) ==
  << [conn |-> "NRTPS1", interval |-> i1], [conn |-> "BE1", interval |-> i2] >>

TwoFlowRegistries ==
  {[sfType \in SfTypes |-> IF sfType = x THEN TwoFlows(i[1], i[2]) ELSE << >>] :
     x \in {"SF_TYPE_UGS", "SF_TYPE_RTPS"}, i \in {<< 2, 0 >>, << 0, 2 >>}}
  \cup
  {[sfType \in SfTypes |-> IF sfType = x THEN TwoFlows(0, 0) ELSE << >>] :
     x \in {"SF_TYPE_NRTPS", "SF_TYPE_BE"}}

InitTwoFlows == InitStation /\ flows \in TwoFlowRegistries /\ InitFatTree

\* The two-flow station: packets arrive on the two flows' connections and on
\* the broadcast connection; grants are made under the denser modulation.
NextTwoFlows ==
  \/ \E c \in {"NRTPS1", "BE1", "BCAST"} :
       \E k \in SduKinds(c) : Enqueue(c, k.type, k.payload)
  \/ \E symbols \in 0..MaxSymbols, t \in HeaderTypes,
        supplied \in {"NRTPS1", "BE1", NoConn} :
       \E currentTime \in Instants(supplied) :
         ScheduleCall(symbols, "QPSK_12", t, supplied, currentTime)
  \/ LoopStep
  \/ Return

SpecTwoFlows == InitTwoFlows /\ [][NextTwoFlows]_vars

\* ---------------------------------------------- FatTreeTopology's ports

basePort(isTcp) == IF isTcp THEN TcpBasePort ELSE UdpBasePort

\* The entry GetUniquePort leaves in the map for the receiver: base port plus
\* receiver index at the first request, the entry incremented at the later
\* ones; the entry is a uint16_t.
NextPortEntry(entry, receiverIdx, isTcp) ==
  IF entry = NoPort
  THEN (basePort(isTcp) + receiverIdx) % Width16
  ELSE (entry + 1) % Width16

\* The calls whose returned port is kept for later comparison.
KeptCalls == {1, 2, 4, 8, 16, 32, 64, 128, 256, 512, 1024, 2048, 4096, 8192,
              16384, 32768}

\* FatTreeTopology::GetUniquePort(receiverIdx, isTcp): the map is updated and
\* the receiver's entry returned.
GetUniquePort(receiverIdx, isTcp) ==
  /\ m_receiverPortMap' = [m_receiverPortMap EXCEPT ![receiverIdx] =
        NextPortEntry(@, receiverIdx, isTcp)]
  /\ portCalls' = [portCalls EXCEPT ![receiverIdx] = @ + 1]
  /\ portCall' = [receiverIdx |-> receiverIdx, isTcp |-> isTcp,
                  prev |-> m_receiverPortMap[receiverIdx],
                  port |-> m_receiverPortMap'[receiverIdx]]
  /\ kept' = IF portCalls'[receiverIdx] \in KeptCalls
             THEN [kept EXCEPT ![receiverIdx] =
                     @ \cup {[n |-> portCalls'[receiverIdx],
                              port |-> m_receiverPortMap'[receiverIdx]]}]
             ELSE kept

\* A port request on its own, as long as the receiver is followed.
PortRequest(receiverIdx, isTcp) ==
  /\ portCalls[receiverIdx] <
       (IF receiverIdx = BusyReceiver THEN MaxPortCalls ELSE MaxOtherCalls)
  /\ GetUniquePort(receiverIdx, isTcp)
  /\ UNCHANGED << stationVars, chainVars >>

\* Any sequence of port requests, TCP and UDP mixed.
NextPorts ==
  \E receiverIdx \in Receivers, isTcp \in BOOLEAN :
    PortRequest(receiverIdx, isTcp)

SpecPorts == Init /\ [][NextPorts]_vars

\* --------------------------------------- FatTreeTopology's traffic chains

\* The inter-arrival times the exponential variable may return, in ticks.
InterArrivals == {0, 20, 29, 48, 49, 60}

\* The event Simulator::Run takes next: the earliest pending one, and of
\* those with the same time the one scheduled first.
NextEvent ==
  CHOOSE e \in events :
    \A f \in events :
      e.time < f.time \/ (e.time = f.time /\ e.uid <= f.uid)

IsNext(handler) ==
  running /\ events # {} /\ NextEvent.handler = handler

\* Mutant of MayScheduleNext: the comparison is not strict.
MayScheduleNext_AtOrBefore(now, interArrival) ==
  now + interArrival <= SIMULATION_TIME

\* Simulator::Now().GetSeconds() + interArrival < SIMULATION_TIME.
MayScheduleNext(now, interArrival) == now + interArrival < SIMULATION_TIME

\* The body of ScheduleNextBackgroundFlow and of ScheduleNextIncast: an
\* inter-arrival time is sampled and the chain's Start event is scheduled
\* after it when the test passes.
ScheduleNext(ch, now, interArrival, pending) ==
  /\ sampled' = [sampled EXCEPT ![ch] =
                   [at |-> now, interArrival |-> interArrival]]
  /\ IF MayScheduleNext(now, interArrival)
     THEN /\ events' = pending \cup
                {[time |-> now + interArrival, uid |-> nextUid,
                  handler |-> StartHandler(ch)]}
          /\ nextUid' = nextUid + 1
     ELSE /\ events' = pending
          /\ nextUid' = nextUid

\* The simulator runs a chain's first event, which calls the chain's
\* ScheduleNext function.
FirstEvent(ch, interArrival) ==
  /\ IsNext(ScheduleNextHandler(ch))
  /\ clock' = NextEvent.time
  /\ ScheduleNext(ch, NextEvent.time, interArrival, events \ {NextEvent})
  /\ UNCHANGED << stationVars, portVars, running, returnedEarly >>

\* Mutant of Start: the early return is missing its return, so the next
\* event is scheduled for a receiver without an address too.
Start_NoEarlyReturn(ch, receiverIdx, valid, interArrival) ==
  /\ IsNext(StartHandler(ch))
  /\ nextUid < MaxEvents
  /\ clock' = NextEvent.time
  /\ IF valid
     THEN GetUniquePort(receiverIdx, ch = "incast") /\ UNCHANGED returnedEarly
     ELSE /\ returnedEarly' = [returnedEarly EXCEPT ![ch] = TRUE]
          /\ UNCHANGED portVars
  /\ ScheduleNext(ch, NextEvent.time, interArrival, events \ {NextEvent})
  /\ UNCHANGED << stationVars, running >>

\* The simulator runs a Start event (StartBackgroundFlow or StartIncast):
\* a receiver is drawn; when its address is 0.0.0.0 the handler returns;
\* otherwise it takes a port (UDP for background flows, TCP for incasts),
\* installs the applications and calls the chain's ScheduleNext function.
Start(ch, receiverIdx, valid, interArrival) ==
  /\ IsNext(StartHandler(ch))
  /\ nextUid < MaxEvents
  /\ clock' = NextEvent.time
  /\ IF valid
     THEN /\ GetUniquePort(receiverIdx, ch = "incast")
          /\ ScheduleNext(ch, NextEvent.time, interArrival,
                          events \ {NextEvent})
          /\ UNCHANGED returnedEarly
     ELSE /\ returnedEarly' = [returnedEarly EXCEPT ![ch] = TRUE]
          /\ events' = events \ {NextEvent}
          /\ UNCHANGED << nextUid, sampled, portVars >>
  /\ UNCHANGED << stationVars, running >>

ScheduleNextBackgroundFlow(interArrival) ==
  FirstEvent("background", interArrival)

StartBackgroundFlow(receiverIdx, valid, interArrival) ==
  Start("background", receiverIdx, valid, interArrival)

ScheduleNextIncast(interArrival) == FirstEvent("incast", interArrival)

StartIncast(receiverIdx, valid, interArrival) ==
  Start("incast", receiverIdx, valid, interArrival)

\* Simulator::Stop(Seconds(SIMULATION_TIME)): the stop event ends the run.
Stop ==
  /\ IsNext("Stop")
  /\ clock' = NextEvent.time
  /\ events' = events \ {NextEvent}
  /\ running' = FALSE
  /\ UNCHANGED << stationVars, portVars, nextUid, sampled, returnedEarly >>

NextTraffic ==
  \/ \E interArrival \in InterArrivals :
       ScheduleNextBackgroundFlow(interArrival)
  \/ \E interArrival \in InterArrivals : ScheduleNextIncast(interArrival)
  \/ \E receiverIdx \in Receivers, valid \in BOOLEAN,
        interArrival \in InterArrivals :
       StartBackgroundFlow(receiverIdx, valid, interArrival)
  \/ \E receiverIdx \in Receivers, valid \in BOOLEAN,
        interArrival \in InterArrivals :
       StartIncast(receiverIdx, valid, interArrival)
  \/ Stop

SpecTraffic == Init /\ [][NextTraffic]_vars

\* ------------------------------------------------ vocabulary of the claims

\* A Schedule call is in progress or has just built its burst.
InCall == pc \in {"loop", "done"}

RECURSIVE BurstBytes(_)
\* Total bytes of a burst (PacketBurst::GetSize).
BurstBytes(b) == IF b = << >> THEN 0 ELSE b[1].size + BurstBytes(Tail(b))

\* The connections of the flows of a scheduling type.
FlowConns(sfType) ==
  {GetServiceFlows(sfType)[i].conn : i \in 1..Len(GetServiceFlows(sfType))}


\* The rung of the priority ladder a connection stands on.
Level(c) ==
  CASE c = "IR" -> 1
    [] c = "BASIC" -> 2
    [] c = "PRIMARY" -> 3
    [] c \in FlowConns("SF_TYPE_UGS") -> 4
    [] c \in FlowConns("SF_TYPE_RTPS") -> 5
    [] c \in FlowConns("SF_TYPE_NRTPS") -> 6
    [] c \in FlowConns("SF_TYPE_BE") -> 7
    [] c = "BCAST" -> 8

\* Whether a connection passes the test of its rung, for given queues and
\* clock.
Eligible(c, q, currentTime) ==
  IF GetType(c) # "TRANSPORT"
  THEN HasPackets(q[c])
  ELSE \E sfType \in SfTypes :
         \E i \in 1..Len(GetServiceFlows(sfType)) :
           /\ GetServiceFlows(sfType)[i].conn = c
           /\ FlowEligible(sfType, q, GetServiceFlows(sfType)[i], currentTime)

\* The connection a call is to use: the one supplied, else the one the
\* ladder gives for the queues and the clock at the call.
CallConnection ==
  IF call.supplied # NoConn THEN call.supplied
  ELSE SelectConnection(q0, call.now)

\* ------------------------------------------------------------------ C1

C2_PriorityLadder ==
  (InCall /\ call.supplied = NoConn) =>
    /\ \A c \in Conns :
         Eligible(c, q0, call.now) =>
           connection # NoConn /\ Level(connection) <= Level(c)
    /\ connection = "BCAST" =>
         \A c \in Conns \ {"BCAST"} : ~Eligible(c, q0, call.now)

\* A real-time polling flow was selected while a connection of a lower rung
\* was eligible too.
C2_Witness ==
  /\ pc = "loop"
  /\ call.supplied = NoConn
  /\ connection \in FlowConns("SF_TYPE_RTPS")
  /\ \E c \in Conns : Eligible(c, q0, call.now) /\ Level(c) > Level(connection)

\* ------------------------------------------------------------------ C3

\* C3: in one Schedule call every packet of the burst comes from the one
\* connection the call uses (supplied or selected), and the queue of every
\* other connection stays as it was when the call started.
C3_OnlyCallConnection ==
  InCall =>
    /\ \A i \in 1..Len(burst) : sdu[burst[i].id].conn = CallConnection
    /\ \A c \in Conns \ {CallConnection} : queue[c] = q0[c]

\* A call served initial ranging while a best-effort queue held a packet.
C3_Witness ==
  /\ pc = "done"
  /\ call.supplied = NoConn
  /\ connection = "IR"
  /\ Len(burst) = 1
  /\ HasPackets(queue["BE1"])

\* ------------------------------------------------------------------ C4

\* The SDU identities of the packets of a burst.
Ids(b) == [i \in 1..Len(b) |-> b[i].id]

RECURSIVE Compress(_)
\* A sequence with each run of equal entries reduced to one entry.
Compress(x) ==
  IF Len(x) <= 1 THEN x
  ELSE IF x[1] = x[2] THEN Compress(Tail(x))
  ELSE << x[1] >> \o Compress(Tail(x))

\* The SDU identities queued on a queue for a header type, head first.
QueuedIds(q, t) ==
  LET OfType(e) == e.type = t IN Ids(SelectSeq(q, OfType))

RECURSIVE EnqueueOrder(_, _, _)
\* The SDUs enqueued so far on a connection for a header type, in enqueue
\* order, among the first n identities.
EnqueueOrder(c, t, n) ==
  IF n = 0 THEN << >>
  ELSE IF n < nextId /\ sdu[n].conn = c /\ sdu[n].type = t
       THEN Append(EnqueueOrder(c, t, n - 1), n)
       ELSE EnqueueOrder(c, t, n - 1)

IsPrefix(a, b) == Len(a) <= Len(b) /\ SubSeq(b, 1, Len(a)) = a

\* The bytes of an SDU already sent when the call in progress started.
OffsetAtCall(id) ==
  LET q == q0[sdu[id].conn]
      i == CHOOSE k \in 1..Len(q) : q[k].id = id
  IN q[i].offset

\* C4: FIFO preservation.  Within a call the packets of the burst take the
\* SDUs of the requested header type in the order the queue held them when
\* the call started, the pieces of one SDU consecutive; each piece starts at
\* the byte where the previous piece of its SDU ended, in this call or in an
\* earlier one; and over all calls the SDUs of a connection and header type
\* are delivered in the order they were enqueued.
C4_FifoPreserved ==
  /\ InCall /\ connection # NoConn =>
       /\ IsPrefix(Compress(Ids(burst)),
                   QueuedIds(q0[connection], call.packetType))
       /\ \A j \in 1..Len(burst) :
            burst[j].off = OffsetAtCall(burst[j].id)
                             + PayloadIn(SubSeq(burst, 1, j - 1), burst[j].id)
  /\ \A c \in Conns, t \in HeaderTypes :
       IsPrefix(log[c][t], EnqueueOrder(c, t, MaxSdus))

\* A second grant on a connection: the burst opens with the rest of the SDU
\* whose first fragment an earlier call sent, and goes on with the next SDU.
C4_Witness ==
  /\ pc = "done"
  /\ Len(burst) = 2
  /\ burst[1].off > 0
  /\ burst[2].id # burst[1].id
  /\ log[connection][call.packetType] = << burst[1].id, burst[2].id >>

\* ------------------------------------------------------------------ C5

\* C5: a call on a connection that is not a transport connection sends whole
\* packets only: no capped dequeue is made, no queue element of such a
\* connection is ever in a fragmentation chain, and when the loop breaks, the
\* head's required bytes exceed the byte budget left.
C5_NoFragmentOffTransport ==
  /\ \A c \in Conns :
       GetType(c) # "TRANSPORT" =>
         \A i \in 1..Len(queue[c]) : ~queue[c][i].frag /\ queue[c][i].offset = 0
  /\ (InCall /\ connection # NoConn /\ GetType(connection) # "TRANSPORT") =>
       /\ \A i \in 1..Len(burst) : burst[i].whole /\ burst[i].off = 0
       /\ lastStep \notin {"fragment", "break_no_fragment"}
       /\ (pc = "done" /\ lastStep = "exit") =>
            ~HasPacketsOf(queue[connection], call.packetType)
       /\ (pc = "done" /\ lastStep # "exit") =>
            /\ lastStep = "break_not_transport"
            /\ requiredByte > availableByte

\* A call on a management connection sent one whole packet and stopped at
\* the next, which no longer fitted.
C5_Witness ==
  /\ pc = "done"
  /\ connection # NoConn
  /\ GetType(connection) # "TRANSPORT"
  /\ lastStep = "break_not_transport"
  /\ Len(burst) = 1

\* ------------------------------------------------------------------ C6

\* Where an SDU sits in the queues.
Positions(id) ==
  {x \in Conns \X (1..MaxSdus) :
     x[2] <= Len(queue[x[1]]) /\ queue[x[1]][x[2]].id = id}

\* One SDU's bytes are accounted for exactly once between queue and bursts.
Accounted(id) ==
  /\ Cardinality(Positions(id)) <= 1
  /\ \A x \in Positions(id) :
       LET e == queue[x[1]][x[2]] IN
       /\ x[1] = sdu[id].conn
       /\ e.type = sdu[id].type /\ e.payload = sdu[id].payload
       /\ sent[id] = e.offset
       /\ sent[id] + (e.payload - e.offset) = sdu[id].payload
       /\ e.frag <=> (\E k \in 1..Len(log[x[1]][e.type]) :
                         log[x[1]][e.type][k] = id)
       /\ e.frag => (e.offset > 0 /\ e.offset < e.payload)
       /\ ~e.frag => e.offset = 0
  /\ Positions(id) = {} =>
       /\ sent[id] = sdu[id].payload
       /\ Cardinality({k \in 1..Len(log[sdu[id].conn][sdu[id].type]) :
                         log[sdu[id].conn][sdu[id].type][k] = id}) = 1

\* C6: no SDU is duplicated or lost between queue and bursts: every SDU
\* enqueued so far is queued at most once, on its own connection; while it is
\* queued the bytes handed out in bursts are exactly the bytes the queue has
\* cut off it; once it has left the queue its whole payload has been handed
\* out, once.  An identity not yet enqueued is nowhere.
C6_NoDuplicateNoLoss ==
  \A id \in 1..MaxSdus :
    IF id < nextId THEN Accounted(id)
    ELSE Positions(id) = {} /\ sent[id] = 0

\* One SDU has left the queue whole while another is split between a burst
\* and the queue.
C6_Witness ==
  \E a, b \in 1..MaxSdus :
    /\ a < nextId /\ b < nextId
    /\ Positions(a) = {} /\ sdu[a].payload > 0
    /\ \E x \in Positions(b) : queue[x[1]][x[2]].frag /\ sent[b] > 0

\* ------------------------------------------------------------------ C7

\* No connection passes the test of its rung for the queues and the clock
\* at the call.
NoneEligible == \A c \in Conns : ~Eligible(c, q0, call.now)

\* C7: a Schedule call made without a connection while no connection is
\* eligible leaves the connection reference null, builds an empty burst and
\* changes no queue, at every point of the call; the state it returns to is
\* the state it started from, so a repeated call does the same.
C7_NoneSelectedNoEffect ==
  (InCall /\ call.supplied = NoConn /\ NoneEligible) =>
    /\ connection = NoConn
    /\ burst = << >>
    /\ queue = q0
    /\ lastStep \in {"none", "exit"}

\* Such a call has finished although packets were queued: a flow whose
\* deadline is not reached, or a flow holding bandwidth requests only.
C7_Witness ==
  /\ pc = "done"
  /\ call.supplied = NoConn
  /\ NoneEligible
  /\ \E c \in Conns : HasPackets(queue[c])

\* ------------------------------------------------------------------ C8

\* C8: a Schedule call given a connection that has no packets aborts on the
\* assertion: the call never enters the loop and never returns, no packet is
\* dequeued, the burst stays empty and no queue changes.
C8_EmptySuppliedAborts ==
  /\ (pc # "idle" /\ call.supplied # NoConn /\ ~HasPackets(q0[call.supplied])) =>
       pc = "abort"
  /\ pc = "abort" =>
       /\ call.supplied # NoConn /\ ~HasPackets(q0[call.supplied])
       /\ burst = << >>
       /\ queue = q0
       /\ ~ENABLED Next

\* A call was given an empty connection while another connection held a
\* packet.
C8_Witness ==
  /\ pc = "abort"
  /\ \E c \in Conns : HasPackets(queue[c])

\* ------------------------------------------------------------------ C9

\* The connection of the call holds a packet of the requested header type
\* whose required bytes are 0 at the head when the call starts.
DegenerateHead ==
  /\ connection # NoConn
  /\ HasPacketsOf(q0[connection], call.packetType)
  /\ GetFirstPacketRequiredByte(q0[connection], call.packetType) = 0

\* C9 as stated: a call with availableSymbols = 0 returns an empty burst and
\* changes no queue, whatever the queues hold.
C9_ZeroGrantNoEffect_Original ==
  (pc = "done" /\ call.symbols = 0) => (burst = << >> /\ queue = q0)

\* C9, amended: a call with availableSymbols = 0 builds an empty burst and
\* changes no queue, at every point of the call, unless the head of the
\* requested header type requires 0 bytes.
C9_ZeroGrantNoEffect ==
  (InCall /\ call.symbols = 0 /\ ~DegenerateHead) =>
    (burst = << >> /\ queue = q0 /\ availableSymbols = 0)

\* A call with no symbols stopped at a head that requires bytes.
C9_Witness ==
  /\ pc = "done"
  /\ call.symbols = 0
  /\ connection # NoConn
  /\ lastStep \in {"break_no_fragment", "break_not_transport"}
  /\ requiredByte > 0

\* ----------------------------------------------------------------- C10

\* The call runs on a transport connection whose head of the requested
\* header type still has payload to send when the call starts.
TransportHeadAtCall ==
  /\ connection # NoConn
  /\ GetType(connection) = "TRANSPORT"
  /\ HasPacketsOf(q0[connection], call.packetType)
  /\ Front(q0[connection], call.packetType).payload
       > Front(q0[connection], call.packetType).offset

\* The symbols needed for the head's header bytes plus extra bytes.
HeadSymbols(extra) ==
  GetNrSymbols(GetFirstPacketHdrSize(q0[connection], call.packetType) + extra,
               call.modulation)

\* C10 as stated: on a transport connection with a non-empty head, a grant
\* of more than symbols_for(first_header_bytes + 1) symbols gets at least one
\* packet or fragment into the burst.
C10_Progress_Original ==
  (pc = "done" /\ TransportHeadAtCall /\ call.symbols > HeadSymbols(1)) =>
    Len(burst) >= 1

\* C10, amended: the same with the 2-byte fragmentation sub-header counted
\* when no chain is in progress on the head: the grant must exceed
\* symbols_for(first_header_bytes + 1) when a chain is in progress and
\* symbols_for(first_header_bytes + 3) when none is.
C10_Progress ==
  (pc = "done" /\ TransportHeadAtCall
     /\ call.symbols > HeadSymbols(IF CheckForFragmentation(q0[connection],
                                                           call.packetType)
                                   THEN 1 ELSE 1 + FragSubhdrSize)) =>
    Len(burst) >= 1

\* A fresh head (no chain in progress) was granted one symbol more than its
\* header plus three bytes need, and a first fragment of it was sent.
C10_Witness ==
  /\ pc = "done"
  /\ TransportHeadAtCall
  /\ ~CheckForFragmentation(q0[connection], call.packetType)
  /\ call.symbols = HeadSymbols(1 + FragSubhdrSize) + 1
  /\ Len(burst) >= 1
  /\ ~burst[1].whole

\* ----------------------------------------------------------------- C11

\* The loop is at the top of an iteration that finds a head to look at.
AtIteration ==
  pc = "loop" /\ LoopCondition(queue, connection, call.packetType)

\* The iteration dequeues the head whole.
TakesWhole == AtIteration /\ WholeFits(availableByte, requiredByte)

\* The iteration dequeues a fragment of the head.
TakesFragment ==
  /\ AtIteration
  /\ ~WholeFits(availableByte, requiredByte)
  /\ MayFragment(connection)
  /\ FragmentationPossible(availableByte, headerSize)

\* C11: the 16-bit availableSymbols counter never underflows: at every
\* subtraction of the loop, in the whole-packet branch and in the fragment
\* branch, the symbols subtracted are at most the symbols left, and so the
\* counter never exceeds the grant of the call; this for a PHY of which only
\* GetNrBytes(GetNrSymbols(b)) >= b and monotone GetNrBytes are known.
C11_NoUnderflow ==
  /\ TakesWhole =>
       nrSymbolsRequired(DequeuedPacket(queue[connection], call.packetType))
         <= availableSymbols
  /\ TakesFragment =>
       nrSymbolsRequired(FragmentPacket(queue[connection], call.packetType,
                                        availableByte))
         <= availableSymbols
  /\ InCall => availableSymbols <= call.symbols

\* ----------------------------------------------------------------- C12

\* The iteration looks at a head whose required bytes are 0.
AtDegenerateHead == AtIteration /\ requiredByte = 0

\* The step dequeued the head of the requested header type as a whole packet
\* of zero bytes, and the loop goes on.
DequeuedDegenerate ==
  /\ queue' = [queue EXCEPT ![connection] = DequeuedQueue(@, call.packetType)]
  /\ Len(burst') = Len(burst) + 1
  /\ burst'[Len(burst')].whole
  /\ burst'[Len(burst')].size = 0
  /\ burst'[Len(burst')].id = Front(queue[connection], call.packetType).id
  /\ availableSymbols' = availableSymbols
  /\ pc' = "loop"

\* C12: when the head of the requested header type requires 0 bytes, the
\* iteration can go on and does so in one way only: it dequeues that head
\* whole, as a packet of zero bytes, whatever byte budget is left (0 too) and
\* whatever the type of the connection.
C12_DegenerateHeadDequeued ==
  /\ [](AtDegenerateHead =>
         (ENABLED SendWhole /\ ~ENABLED BreakNotTransport
            /\ ~ENABLED BreakNoFragment /\ ~ENABLED SendFragment
            /\ ~ENABLED LoopExit))
  /\ [][AtDegenerateHead => DequeuedDegenerate]_vars

\* A degenerate head was dequeued on a connection that may not fragment,
\* under a grant of no symbols.
C12_Witness ==
  /\ pc = "loop"
  /\ lastStep = "whole"
  /\ call.symbols = 0
  /\ GetType(connection) # "TRANSPORT"
  /\ burst[Len(burst)].size = 0

\* ----------------------------------------------------------------- C13

\* C13: a Schedule call given a connection that has packets does not run the
\* ladder: at every point of the call the connection reference is the one
\* supplied, whatever the ladder would have selected; every packet of the
\* burst comes from it and no other queue changes; and the call ends only
\* when it has no packet of the requested header type left or its head no
\* longer fits the budget.
C13_SuppliedConnectionDrained ==
  (InCall /\ call.supplied # NoConn) =>
    /\ connection = call.supplied
    /\ HasPackets(q0[call.supplied])
    /\ \A i \in 1..Len(burst) : sdu[burst[i].id].conn = call.supplied
    /\ \A c \in Conns \ {call.supplied} : queue[c] = q0[c]
    /\ pc = "done" =>
         \/ /\ lastStep = "exit"
            /\ ~HasPacketsOf(queue[call.supplied], call.packetType)
         \/ /\ lastStep \in {"break_no_fragment", "break_not_transport"}
            /\ HasPacketsOf(queue[call.supplied], call.packetType)
            /\ requiredByte > availableByte

\* A call given a best-effort connection emptied it while the initial
\* ranging connection, which the ladder would have selected, held a packet.
C13_Witness ==
  /\ pc = "done"
  /\ call.supplied = "BE1"
  /\ connection = "BE1"
  /\ Len(burst) >= 1
  /\ queue["BE1"] = << >>
  /\ HasPackets(queue["IR"])
  /\ SelectConnection(q0, call.now) = "IR"

\* ----------------------------------------------------------------- C14

\* The instant a call reads plus the frame duration has reached an interval.
AtLeast(now, interval) == now + FrameDuration >= interval

\* The instant a call reads plus the frame duration has passed an interval.
Past(now, interval) == now + FrameDuration > interval

\* An interval is due, by the strict or by the loose comparison.
Due(strict, now, interval) ==
  IF strict THEN Past(now, interval) ELSE AtLeast(now, interval)

\* Some UGS flow has packets and its grant interval is due.
UgsDue(strict) ==
  \E i \in 1..Len(GetServiceFlows("SF_TYPE_UGS")) :
    LET f == GetServiceFlows("SF_TYPE_UGS")[i] IN
    HasPackets(q0[f.conn]) /\ Due(strict, call.now, f.interval)

\* Some rtPS flow has data packets and its polling interval is due.
RtpsDue(strict) ==
  \E i \in 1..Len(GetServiceFlows("SF_TYPE_RTPS")) :
    LET f == GetServiceFlows("SF_TYPE_RTPS")[i] IN
    HasPacketsOf(q0[f.conn], GENERIC) /\ Due(strict, call.now, f.interval)

\* No management connection ahead of the service flows has packets.
NoManagementPackets ==
  \A c \in {"IR", "BASIC", "PRIMARY"} : ~HasPackets(q0[c])

\* The deadline predicate as the ladder applies it, for a reading of "due"
\* (strict or not):
\* past the management rungs a UGS flow is selected iff some UGS flow is due,
\* and when none is, an rtPS flow is selected iff some rtPS flow is due.
DeadlineRule(strict) ==
  (InCall /\ call.supplied = NoConn /\ NoManagementPackets) =>
    /\ connection \in FlowConns("SF_TYPE_UGS") <=> UgsDue(strict)
    /\ ~UgsDue(strict) =>
         (connection \in FlowConns("SF_TYPE_RTPS") <=> RtpsDue(strict))

\* C14 as stated: a UGS flow is eligible iff it has packets and
\* now + frame_duration >= its grant interval, an rtPS flow iff it has GENERIC
\* packets and now + frame_duration >= its polling interval; equality makes
\* a flow eligible.
C14_Deadline_Original == DeadlineRule(FALSE)

\* C14, amended: the same with a strict comparison: a flow is eligible iff
\* it has the packets and now + frame_duration > its interval; at equality it
\* is not eligible.
C14_Deadline == DeadlineRule(TRUE)

\* A call made when now + frame_duration equals the grant interval of a UGS
\* flow that has packets passed that flow over and selected an rtPS flow.
C14_Witness ==
  /\ pc = "loop"
  /\ call.supplied = NoConn
  /\ \E i \in 1..Len(GetServiceFlows("SF_TYPE_UGS")) :
       LET f == GetServiceFlows("SF_TYPE_UGS")[i] IN
       HasPackets(q0[f.conn]) /\ call.now + FrameDuration = f.interval
  /\ connection \in FlowConns("SF_TYPE_RTPS")

\* ----------------------------------------------------------------- C15

\* Some flow of a scheduling type has data packets.
DataWaiting(sfType) ==
  \E c \in FlowConns(sfType) : HasPacketsOf(q0[c], GENERIC)

\* Some UGS flow has packets, or some rtPS flow data packets, while its
\* interval is not due.
FlowHeldBack ==
  \/ \E i \in 1..Len(GetServiceFlows("SF_TYPE_UGS")) :
       LET f == GetServiceFlows("SF_TYPE_UGS")[i] IN
       HasPackets(q0[f.conn]) /\ ~Past(call.now, f.interval)
  \/ \E i \in 1..Len(GetServiceFlows("SF_TYPE_RTPS")) :
       LET f == GetServiceFlows("SF_TYPE_RTPS")[i] IN
       HasPacketsOf(q0[f.conn], GENERIC) /\ ~Past(call.now, f.interval)

\* C15: a UGS or rtPS flow that has packets but whose interval is not due is
\* passed over and does not stop the ladder: with no management packets and
\* no UGS flow due, an rtPS flow that is due is selected; with no rtPS flow
\* due either, the ladder goes on to an nrtPS flow with data packets, then
\* to a BE flow with data packets, then to broadcast.
C15_HeldBackFlowSkipped ==
  (InCall /\ call.supplied = NoConn /\ NoManagementPackets /\ ~UgsDue(TRUE)) =>
    IF RtpsDue(TRUE) THEN connection \in FlowConns("SF_TYPE_RTPS")
    ELSE IF DataWaiting("SF_TYPE_NRTPS")
         THEN connection \in FlowConns("SF_TYPE_NRTPS")
    ELSE IF DataWaiting("SF_TYPE_BE")
         THEN connection \in FlowConns("SF_TYPE_BE")
    ELSE IF HasPackets(q0["BCAST"]) THEN connection = "BCAST"
    ELSE connection = NoConn

\* A UGS flow with packets was held back and the ladder went past it and
\* past the rtPS rung to a connection further down.
C15_Witness ==
  /\ pc = "loop"
  /\ call.supplied = NoConn
  /\ FlowHeldBack
  /\ HasPackets(q0["UGS1"])
  /\ connection \in FlowConns("SF_TYPE_NRTPS") \cup FlowConns("SF_TYPE_BE")
                      \cup {"BCAST"}

\* ----------------------------------------------------------------- C16

\* The call runs on a connection whose head of the requested header type
\* was in a fragmentation chain when the call started: an earlier call sent
\* a first fragment of it.
ChainAtCall ==
  /\ connection # NoConn
  /\ HasPacketsOf(q0[connection], call.packetType)
  /\ CheckForFragmentation(q0[connection], call.packetType)

\* The byte budget the call started with.
GrantBytes == GetNrBytes(call.symbols, call.modulation)

\* C16: fragmentation continuity across grants.  A fragment sent leaves the
\* SDU it was cut from at the head of its transport connection's queue, in
\* a chain in progress; a later call on that connection and header type
\* opens its burst with the next piece of that SDU, from the byte where the
\* chain stopped, before any later SDU; and it sends a piece exactly when
\* its byte budget exceeds the head's header size as the queue reports it,
\* with no further 2 bytes added.
C16_FragmentationContinues ==
  /\ (InCall /\ lastStep = "fragment") =>
       /\ GetType(connection) = "TRANSPORT"
       /\ HasPacketsOf(queue[connection], call.packetType)
       /\ CheckForFragmentation(queue[connection], call.packetType)
       /\ Front(queue[connection], call.packetType).id = burst[Len(burst)].id
  /\ (InCall /\ ChainAtCall) =>
       /\ GetType(connection) = "TRANSPORT"
       /\ Front(q0[connection], call.packetType).offset > 0
       /\ burst # << >> =>
            /\ burst[1].id = Front(q0[connection], call.packetType).id
            /\ burst[1].off = Front(q0[connection], call.packetType).offset
       /\ pc = "done" =>
            (burst # << >> <=>
               GrantBytes > GetFirstPacketHdrSize(q0[connection],
                                                  call.packetType))

\* A second grant found a chain in progress and had room for the header and
\* at most two bytes more: it sent the next fragment of the same SDU, which
\* stays at the head.
C16_Witness ==
  /\ pc = "done"
  /\ ChainAtCall
  /\ GrantBytes <= GetFirstPacketHdrSize(q0[connection], call.packetType)
                     + FragSubhdrSize
  /\ Len(burst) = 1
  /\ ~burst[1].whole
  /\ burst[1].off > 0
  /\ Front(queue[connection], call.packetType).id = burst[1].id

\* ----------------------------------------------------------------- C17

RECURSIVE Drain(_, _, _, _, _, _)
\* The while loop of Schedule as a function of what the call is given: the
\* queue q of connection c, the burst b built so far and the symbols left,
\* under modulation m for header type t.  The burst, the queue and the
\* symbols the loop ends with.
Drain(q, b, symbols, c, m, t) ==
  IF c = NoConn \/ ~HasPacketsOf(q, t)
  THEN [burst |-> b, queue |-> q, symbols |-> symbols]
  ELSE
    LET a == GetNrBytes(symbols, m)
        r == GetFirstPacketRequiredByte(q, t)
        h == GetFirstPacketHdrSize(q, t)
               + (IF CheckForFragmentation(q, t) THEN 0 ELSE FragSubhdrSize)
        Cost(packet) == GetNrSymbols(packet.size, m) % Width16
    IN IF a >= r
       THEN Drain(DequeuedQueue(q, t), Append(b, DequeuedPacket(q, t)),
                  Sub16(symbols, Cost(DequeuedPacket(q, t))), c, m, t)
       ELSE IF GetType(c) = "TRANSPORT" /\ a > h
       THEN Drain(FragmentQueue(q, t, a), Append(b, FragmentPacket(q, t, a)),
                  Sub16(symbols, Cost(FragmentPacket(q, t, a))), c, m, t)
       ELSE [burst |-> b, queue |-> q, symbols |-> symbols]

\* What a call returns, from its arguments, the queues and the clock alone.
ResultOfCall ==
  IF CallConnection = NoConn
  THEN [burst |-> << >>, queue |-> << >>, symbols |-> call.symbols]
  ELSE Drain(q0[CallConnection], << >>, call.symbols, CallConnection,
             call.modulation, call.packetType)

\* C17: the poll-me flag is false at construction; GetPollMe returns the
\* argument of the most recent SetPollMe (false while there was none); no
\* step of a Schedule call (its entry with SelectConnection, its loop, its
\* return) changes the flag; and the burst and the connection a call returns
\* are those its arguments, the queues and the clock determine, whatever the
\* flag is.
C17_PollMeIndependent ==
  /\ GetPollMe = FALSE
  /\ [](GetPollMe = pollMeArg)
  /\ [][(pc # "idle" \/ pc' # "idle") => GetPollMe' = GetPollMe]_vars
  /\ [](pc = "done" =>
         (burst = ResultOfCall.burst /\ connection = CallConnection))

\* A call made while the flag was set has built a burst and left packets
\* queued, and the flag is still set.
C17_Witness ==
  /\ pc = "done"
  /\ GetPollMe = TRUE
  /\ pollMeArg = TRUE
  /\ Len(burst) >= 1
  /\ \E c \in Conns : HasPackets(queue[c])

\* ----------------------------------------------------------------- C18

\* C18: every Schedule call that enters its loop runs to completion: it
\* reaches the return with its burst, whatever the queues hold, whatever the
\* grant and whatever the type of the connection, packets that cost no
\* symbols included.
C18_CallTerminates == (pc = "loop") ~> (pc = "done")

\* A call has finished after it dequeued a packet that cost no symbols.
C18_Witness ==
  /\ pc = "done"
  /\ Len(burst) >= 1
  /\ \E i \in 1..Len(burst) : GetNrSymbols(burst[i].size, call.modulation) = 0

\* ----------------------------------------------------------------- C19

\* C19: the scheduler keeps nothing from one call to the next.  What a call
\* returns and leaves behind (the burst, the connection reference, the
\* queue of that connection, the symbols left, every other queue untouched)
\* is what the loop gives for the call's arguments, the queues as they were
\* when the call started and the clock it read, and for nothing else: not
\* for the calls made before, nor for the value of the poll-me flag.  Two
\* calls that agree on these therefore return the same.
C19_StatelessAcrossCalls ==
  pc = "done" =>
    /\ connection = CallConnection
    /\ burst = ResultOfCall.burst
    /\ availableSymbols = ResultOfCall.symbols
    /\ connection # NoConn => queue[connection] = ResultOfCall.queue
    /\ \A c \in Conns \ {connection} : queue[c] = q0[c]

\* A call has built a burst that goes on with an SDU of which an earlier
\* call sent the first fragment, after the MAC had set the poll-me flag.
C19_Witness ==
  /\ pc = "done"
  /\ call.supplied = NoConn
  /\ Len(burst) >= 1
  /\ burst[1].off > 0
  /\ m_pollMe = TRUE

\* ----------------------------------------------------------------- C20

\* The iteration is on a transport connection and the byte budget is below
\* the head's required bytes.
AtFragmentDecision ==
  /\ AtIteration
  /\ GetType(connection) = "TRANSPORT"
  /\ availableByte < requiredByte

\* The threshold of the decision: the head's header size as the queue
\* reports it, plus 2 when no chain is in progress on the head.
FragmentThreshold ==
  IF CheckForFragmentation(queue[connection], call.packetType)
  THEN GetFirstPacketHdrSize(queue[connection], call.packetType)
  ELSE GetFirstPacketHdrSize(queue[connection], call.packetType) + 2

\* The step dequeued a fragment of the head with the byte budget as its cap
\* and the loop goes on.
FragmentDequeued ==
  /\ queue' = [queue EXCEPT ![connection] =
                 FragmentQueue(@, call.packetType, availableByte)]
  /\ burst' = Append(burst, FragmentPacket(queue[connection], call.packetType,
                                           availableByte))
  /\ burst'[Len(burst')].size <= availableByte
  /\ ~burst'[Len(burst')].whole
  /\ pc' = "loop"

\* The step ended the loop and dequeued nothing.
LoopEndedWithoutDequeue ==
  /\ pc' = "done"
  /\ UNCHANGED << queue, burst, availableSymbols >>

\* C20: in an iteration on a transport connection whose byte budget A is
\* below the head's required bytes, the loop has a step to take, and the
\* step dequeues a fragment with cap A when A exceeds the threshold (header
\* size plus 2 with no chain in progress, header size alone with one) and
\* otherwise ends the loop without dequeuing.
C20_FragmentationDecision ==
  /\ [](AtFragmentDecision =>
         IF availableByte > FragmentThreshold
         THEN ENABLED SendFragment /\ ~ENABLED BreakNoFragment
         ELSE ENABLED BreakNoFragment /\ ~ENABLED SendFragment)
  /\ [][AtFragmentDecision =>
          IF availableByte > FragmentThreshold
          THEN FragmentDequeued
          ELSE LoopEndedWithoutDequeue]_vars

\* The loop ended on a head with no chain in progress whose header size
\* plus 2 was the whole byte budget.
C20_Witness ==
  /\ pc = "done"
  /\ lastStep = "break_no_fragment"
  /\ ~CheckForFragmentation(queue[connection], call.packetType)
  /\ availableByte
       = GetFirstPacketHdrSize(queue[connection], call.packetType) + 2

\* ----------------------------------------------------------------- C21

\* The iteration finds a head whose required bytes the byte budget covers.
HeadFits == AtIteration /\ availableByte >= requiredByte

\* The step dequeued the head uncapped, put it at the end of the burst and
\* took the symbols of its size off the budget.
WholeDequeued ==
  /\ queue' = [queue EXCEPT ![connection] = DequeuedQueue(@, call.packetType)]
  /\ burst' = Append(burst, DequeuedPacket(queue[connection], call.packetType))
  /\ burst'[Len(burst')].whole
  /\ burst'[Len(burst')].size = requiredByte
  /\ availableSymbols'
       = availableSymbols
           - GetNrSymbols(burst'[Len(burst')].size, call.modulation)
  /\ pc' = "loop"

\* The step made a capped dequeue.
CappedDequeue == Len(burst') > Len(burst) /\ ~burst'[Len(burst')].whole

\* C21: whole-packet preference.  In an iteration whose byte budget covers
\* the head's required bytes the loop has one step to take, whatever the
\* type of the connection: it dequeues the head whole and takes
\* GetNrSymbols of the packet's size off availableSymbols; a capped dequeue
\* is made only in an iteration whose byte budget is below the required
\* bytes.
C21_WholePacketPreferred ==
  /\ [](HeadFits =>
         (ENABLED SendWhole /\ ~ENABLED SendFragment
            /\ ~ENABLED BreakNoFragment /\ ~ENABLED BreakNotTransport
            /\ ~ENABLED LoopExit))
  /\ [][HeadFits => WholeDequeued]_vars
  /\ [][CappedDequeue => (AtIteration /\ availableByte < requiredByte)]_vars

\* A transport connection's head needed exactly the byte budget of the grant
\* and went out whole, although the connection may fragment.
C21_Witness ==
  /\ InCall
  /\ GetType(connection) = "TRANSPORT"
  /\ Len(burst) = 1
  /\ burst[1].whole
  /\ burst[1].size > 0
  /\ GrantBytes = burst[1].size
  /\ availableSymbols
       = call.symbols - GetNrSymbols(burst[1].size, call.modulation)

\* ----------------------------------------------------------------- C22

\* Bytes of the smallest fragment of an SDU of a header type: its MAC
\* header, the fragmentation sub-header and one payload byte.
SmallestFragment(t) == HdrSize(t) + FragSubhdrSize + 1

\* C22: maximal packing at return.  When the loop has ended on a connection,
\* either the connection has no packet of the requested header type left,
\* or the byte budget left is below the head's required bytes and, on a
\* transport connection, below the smallest fragment too.
C22_MaximalPacking ==
  (pc = "done" /\ connection # NoConn) =>
    \/ ~HasPacketsOf(queue[connection], call.packetType)
    \/ /\ availableByte < requiredByte
       /\ GetType(connection) = "TRANSPORT" =>
            availableByte < SmallestFragment(call.packetType)

\* A call on a transport connection sent a packet and ended with bytes left
\* that could not take the smallest fragment of the next head.
C22_Witness ==
  /\ pc = "done"
  /\ connection # NoConn
  /\ GetType(connection) = "TRANSPORT"
  /\ Len(burst) >= 1
  /\ HasPacketsOf(queue[connection], call.packetType)
  /\ availableByte > 0

\* ----------------------------------------------------------------- C23

\* The iteration finds a head that does not fit and cannot be fragmented.
HeadStuck ==
  /\ AtIteration
  /\ availableByte < requiredByte
  /\ \/ GetType(connection) # "TRANSPORT"
     \/ availableByte <= FragmentThreshold

\* C23: an iteration that ends the loop without dequeuing leaves every queue
\* as it was: the head stays at the front with its size and its
\* fragmentation state, and the burst and the budget stay too; a call whose
\* first iteration ends so returns an empty burst and has changed no queue.
C23_BreakLeavesQueue ==
  /\ [][HeadStuck =>
          (pc' = "done" /\ UNCHANGED << queue, burst, availableSymbols >>)]_vars
  /\ [](pc = "done"
          /\ lastStep \in {"break_no_fragment", "break_not_transport"} =>
            /\ HasPacketsOf(queue[connection], call.packetType)
            /\ burst = << >> => queue = q0)

\* The basic connection held one packet larger than the byte budget of the
\* grant: the burst is empty and the packet is still queued.
C23_Witness ==
  /\ pc = "done"
  /\ connection = "BASIC"
  /\ lastStep = "break_not_transport"
  /\ burst = << >>
  /\ GrantBytes > 0
  /\ Len(queue["BASIC"]) = 1
  /\ queue = q0

\* ------------------------------------------------------------------ C24

\* The test a scheduling type's loop applies to one of its flows, on the
\* queues and the instant of the call in progress.
PassesTest(sfType, f) ==
  CASE sfType = "SF_TYPE_UGS" ->
         HasPackets(q0[f.conn]) /\ Past(call.now, f.interval)
    [] sfType = "SF_TYPE_RTPS" ->
         HasPacketsOf(q0[f.conn], GENERIC) /\ Past(call.now, f.interval)
    [] OTHER -> HasPacketsOf(q0[f.conn], GENERIC)

\* The flow at position j of a scheduling type is the one the call selected.
Returned(sfType, j) ==
  /\ InCall
  /\ call.supplied = NoConn
  /\ j \in 1..Len(flows[sfType])
  /\ connection = flows[sfType][j].conn
  /\ PassesTest(sfType, flows[sfType][j])

\* C24: within one service class SelectConnection returns the connection of
\* the first eligible flow in registry order: the flow a call selected is
\* preceded in its class's sequence by no flow that passes the class's test.
C24_FirstEligibleFlow ==
  \A sfType \in SfTypes : \A j \in 1..Len(flows[sfType]) :
    Returned(sfType, j) =>
      \A i \in 1..(j - 1) : ~PassesTest(sfType, flows[sfType][i])

\* Both flows of a class pass the test and the call took the first one.
C24_Witness ==
  \E sfType \in SfTypes :
    /\ Len(flows[sfType]) = 2
    /\ Returned(sfType, 1)
    /\ PassesTest(sfType, flows[sfType][2])
    /\ burst # << >>

\* ------------------------------------------------------------------ C25

\* The connections of the rtPS, nrtPS and BE flows.
DataClassConns ==
  FlowConns("SF_TYPE_RTPS") \cup FlowConns("SF_TYPE_NRTPS")
    \cup FlowConns("SF_TYPE_BE")

\* A call that selects its connection itself.
SelectingCall == InCall /\ call.supplied = NoConn

\* A connection that held packets at the call, none of them a data packet.
OnlyRequests(c) == HasPackets(q0[c]) /\ ~HasPacketsOf(q0[c], GENERIC)

\* The rungs that test HasPackets() without a header type: each management
\* connection is selected when it holds a packet and none before it does, a
\* UGS flow when its interval is due, the broadcast connection when no flow
\* passes its test.
AnyTypeRungs ==
  /\ HasPackets(q0["IR"]) => connection = "IR"
  /\ (~HasPackets(q0["IR"]) /\ HasPackets(q0["BASIC"])) => connection = "BASIC"
  /\ (~HasPackets(q0["IR"]) /\ ~HasPackets(q0["BASIC"])
        /\ HasPackets(q0["PRIMARY"])) => connection = "PRIMARY"
  /\ (NoManagementPackets /\ UgsDue(TRUE)) =>
        connection \in FlowConns("SF_TYPE_UGS")
  /\ (NoManagementPackets /\ ~UgsDue(TRUE) /\ ~RtpsDue(TRUE)
        /\ ~DataWaiting("SF_TYPE_NRTPS") /\ ~DataWaiting("SF_TYPE_BE")
        /\ HasPackets(q0["BCAST"])) => connection = "BCAST"

\* C25: SelectConnection returns the connection of an rtPS, nrtPS or BE flow
\* only if it holds a packet of header type GENERIC, so a flow of these
\* classes holding only bandwidth requests is never selected; management
\* connections, UGS flows and the broadcast connection are selected on
\* packets of any header type.
C25_DataFlowsNeedGeneric ==
  SelectingCall =>
    /\ connection \in DataClassConns => HasPacketsOf(q0[connection], GENERIC)
    /\ AnyTypeRungs

\* A flow of a data class holds only bandwidth requests and is passed over,
\* and the call selects a connection that holds only bandwidth requests too.
C25_Witness ==
  /\ SelectingCall
  /\ \E c \in DataClassConns : OnlyRequests(c)
  /\ connection \in {"IR", "BASIC", "PRIMARY", "BCAST"}
        \cup FlowConns("SF_TYPE_UGS")
  /\ OnlyRequests(connection)

\* ------------------------------------------------------------------ C26

\* The connection SelectConnection returned to the call in progress.
Selected == SelectConnection(q0, call.now)

\* At the call the connection held no packet of the requested header type.
NothingRequested(c) == ~HasPacketsOf(q0[c], call.packetType)

\* At the call the connection's head of the requested header type fitted the
\* grant.
FitsAtCall(c) ==
  /\ HasPacketsOf(q0[c], call.packetType)
  /\ GrantBytes >= GetFirstPacketRequiredByte(q0[c], call.packetType)

\* At the call the connection's head of the requested header type neither
\* fitted the grant nor could be fragmented into it.
StuckAtCall(c) ==
  /\ HasPacketsOf(q0[c], call.packetType)
  /\ GrantBytes < GetFirstPacketRequiredByte(q0[c], call.packetType)
  /\ \/ GetType(c) # "TRANSPORT"
     \/ GrantBytes <=
          GetFirstPacketHdrSize(q0[c], call.packetType)
            + (IF CheckForFragmentation(q0[c], call.packetType)
               THEN 0 ELSE FragSubhdrSize)

\* C26: no fallback after selection.  A call with a null connection whose
\* selected connection has no packet of the requested header type, or whose
\* head neither fits nor can be fragmented into the grant, ends with an empty
\* burst, the caller's reference set to that connection and every queue as
\* it was: no other connection is served.
C26_NoFallback ==
  (/\ pc = "done"
   /\ call.supplied = NoConn
   /\ Selected # NoConn
   /\ NothingRequested(Selected) \/ StuckAtCall(Selected)) =>
    /\ burst = << >>
    /\ connection = Selected
    /\ queue = q0

\* The selected connection's head is stuck while a connection further down
\* the ladder holds a packet of the requested header type that fits the grant.
C26_Witness ==
  /\ pc = "done"
  /\ call.supplied = NoConn
  /\ Selected # NoConn
  /\ StuckAtCall(Selected)
  /\ \E c \in Conns : Level(c) > Level(Selected) /\ FitsAtCall(c)
  /\ burst = << >>

\* ------------------------------------------------------------------ C27

\* The call was given a connection that held packets, none of them of the
\* requested header type.
SuppliedWithoutRequested ==
  /\ call.supplied # NoConn
  /\ HasPackets(q0[call.supplied])
  /\ NothingRequested(call.supplied)

\* C27: the check of a supplied connection is on packets of any header type.
\* A call aborts only on a supplied connection that holds no packet at all;
\* a call given a connection with packets, none of the requested header
\* type, goes past the assertion, builds an empty burst and changes no queue.
C27_SuppliedCheckAnyType ==
  /\ pc = "abort" => ~HasPackets(q0[call.supplied])
  /\ (pc # "abort" /\ SuppliedWithoutRequested) =>
       /\ InCall
       /\ connection = call.supplied
       /\ burst = << >>
       /\ queue = q0

\* A call for data packets on a transport connection that holds only
\* bandwidth requests has ended.
C27_Witness ==
  /\ pc = "done"
  /\ SuppliedWithoutRequested
  /\ call.packetType = GENERIC
  /\ lastStep = "exit"
  /\ burst = << >>

\* ------------------------------------------------------------------ C28

\* Some GetUniquePort call has been made.
PortRequested == portCall.port # NoPort

\* The latest call was the first for its receiver.
FirstRequest == PortRequested /\ portCall.prev = NoPort

\* The latest call was a later one for its receiver.
LaterRequest == PortRequested /\ portCall.prev # NoPort

\* The ports kept for a receiver from calls before the latest one.
KeptBefore(r) == {k \in kept[r] : k.n < portCalls[r]}

\* Over fewer than 2^16 calls for a receiver the port returned last differs
\* from the ports kept from its earlier calls.
PortsDistinct ==
  PortRequested =>
    LET r == portCall.receiverIdx IN
    portCalls[r] < Width16 =>
      \A k \in KeptBefore(r) : k.port # portCall.port

\* The first call for a receiver returns the base port of its protocol plus
\* the receiver index.
FirstPort ==
  FirstRequest =>
    portCall.port = (IF portCall.isTcp THEN 8000 ELSE 9000)
                      + portCall.receiverIdx

\* A later call returns the previous value plus 1 in 16 bits: after 65535
\* comes 0.
LaterPortWraps ==
  LaterRequest => portCall.port = (portCall.prev + 1) % 65536

\* C28: per receiver the ports returned are pairwise distinct over fewer than
\* 2^16 calls, the first call returns base + receiverIdx (base 8000 for TCP,
\* 9000 for UDP) and each later call returns the previous value plus 1,
\* whatever its isTcp argument.
C28_UniquePorts ==
  /\ PortsDistinct
  /\ FirstPort
  /\ LaterRequest => portCall.port = portCall.prev + 1

\* ------------------------------------------------------------------ C29

\* The pending Start events of a chain, and all its pending events.
PendingStarts(ch) == {e \in events : e.handler = StartHandler(ch)}

PendingOf(ch) ==
  {e \in events : e.handler \in {StartHandler(ch), ScheduleNextHandler(ch)}}

\* The chain's latest sample reached or passed the simulation time.
SampleTooLate(ch) ==
  /\ sampled[ch] # NoSample
  /\ sampled[ch].at + sampled[ch].interArrival >= SIMULATION_TIME

====
